---- MODULE Spec2Model ----
(***************************************************************************)
(* Model of the text-to-app pipelines of Reynxzz/bad-scientist:            *)
(*   - execute_streamlit_generation     (src/src/agents/async_crew.py)     *)
(*   - StreamlitAppGenerationFlow       (src/src/agents/crew.py)           *)
(*   - DataScienceFlow.execute_flow     (src/src/agents/custom_agents.py)  *)
(*   - RAGProcessor.process_requirements (tools/langchain/rag_processor.py)*)
(*   - MistralRAGProcessor              (src/src/mistral_agents.py)        *)
(*   - DocumentProcessor and the Cortex search tools                       *)
(*     (src/src/tools/document_processor.py, src/src/tools/search_cortex.py)*)
(*   - SnowflakeTableTool._run          (src/src/tools/text_to_sql.py)     *)
(*   - the Streamlit pages (src/src/Home.py, pages/1_Generated_App.py)     *)
(*   - CrewSnowflakeLLM                 (src/src/custom_cortex_llm)        *)
(* Text is a sequence of tokens; an f-string is the concatenation of its   *)
(* literal pieces and the substituted values.                              *)
(***************************************************************************)
EXTENDS Integers, Sequences, FiniteSets, TLC

VARIABLES
    variant,        \* which entry point this behaviour exercises
    docs_uploaded,  \* argument docs_uploaded of the pipeline
    docs_path,      \* argument docs_path: "None" or the path of the upload
    doc,            \* content of the file at docs_path (a sequence of tokens)
    pc,             \* position of the orchestrating function
    status,         \* per stage: "idle" | "running" | "done" | "failed"
    fut,            \* per stage: what the stage execution produced
    val,            \* per stage: the orchestrator's variable holding its result
    prompts,        \* per stage: the prompt rendered for it (<<>> before)
    flowResult,     \* self.result of StreamlitAppGenerationFlow
    outcome,        \* "running" | "returned" | "raised"
    returned,       \* the object returned to the caller
    raised,         \* the exception that reached the caller
    queue,          \* tasks scheduled on the event loop / thread pool, FIFO
    log,            \* history: <<kind, stage>> events in order
    failure,        \* history: first failing stage and the error at its origin
    closes,         \* number of session.close() calls of DataScienceFlow
    rows,           \* per docType: rows of <docType>_chunks
    tblExists,      \* docTypes whose chunk table exists
    svcIndex,       \* per docType: rows the search service has indexed
    svcExists,      \* docTypes whose Cortex search service exists
    proc,           \* the DocumentProcessor call in progress
    lastSearch,     \* the latest search tool call and what it gave
    everIngested,   \* history: docTypes that ever received a chunk
    completions,    \* per stage: model completions issued by its execution
    toolRounds,     \* per stage: responses that asked for tool calls
    sqlRun,         \* the SnowflakeTableTool._run call: arguments, progress, answer
    session_state,  \* st.session_state of one browser session
    ui,             \* position of the page script; history of what it showed and ran
    litellm,        \* litellm.custom_provider_map, the CrewSnowflakeLLM instances, the latest call
    loop            \* _process_mistral_interaction: the response in hand and the messages it added

storeVars == <<rows, tblExists, svcIndex, svcExists, proc, lastSearch, everIngested>>
pipeVars == <<variant, docs_uploaded, docs_path, doc, pc, status, fut, val, prompts, flowResult,
              outcome, returned, raised, queue, log, failure, closes>>
llmVars == <<completions, toolRounds>>
extVars == <<sqlRun, session_state, ui, litellm, loop>>
vars == <<variant, docs_uploaded, docs_path, doc, pc, status, fut, val, prompts, flowResult,
          outcome, returned, raised, queue, log, failure, closes,
          rows, tblExists, svcIndex, svcExists, proc, lastSearch, everIngested,
          completions, toolRounds, sqlRun, session_state, ui, litellm, loop>>

----------------------------------------------------------------------------
(* Bounds of the model *)

\* longest document, in tokens
MaxDocLen == 2
\* most generation attempts in one browser session
MaxGenerations == 2
\* most tool calls in one response of the model
MaxCalls == 2
\* chunk_size of _split_into_chunks, in tokens instead of 1000 characters
ChunkSize == 1
\* chunk_overlap of the splitter, in tokens instead of 200 characters
ChunkOverlap == 0
\* most responses with tool calls the model gives within one interaction
MaxToolRounds == 2

(* Program constants *)

\* limit=5 of search_service.search
SearchLimit == 5
\* ThreadPoolExecutor(max_workers=2)
max_workers == 2

----------------------------------------------------------------------------
(* Text *)

Min(a, b) == IF a < b THEN a ELSE b
Max(a, b) == IF a > b THEN a ELSE b

\* the texts a model completion can be
LLMTexts == {<<"x">>, <<"y">>}

\* Python's None, as a value a result field can hold
NoneVal == <<"<None>">>

\* str(v) inside an f-string
Str(v) == IF v = NoneVal THEN <<"None">> ELSE v

\* s occurs in p verbatim (Python's `s in p`)
Contains(p, s) ==
    \E i \in 1..(Len(p) + 1) :
        /\ i + Len(s) - 1 <= Len(p)
        /\ SubSeq(p, i, i + Len(s) - 1) = s

\* the user's request
UserPrompt == <<"prompt">>

----------------------------------------------------------------------------
(* Retrieval store: DocumentProcessor and the search tools *)

REQUIREMENTS == "req_docs"
STREAMLIT_DOCS == "streamlit_code"
ST_REF_DOCS == "streamlit_appgalery"
DocumentType == {REQUIREMENTS, STREAMLIT_DOCS, ST_REF_DOCS}

\* tech_stack values a caller can pass to the technical tool
TechStack == {"streamlit", "st_ref"}
TechStackInputs == TechStack \cup {"None"}

\* documents that can be uploaded: up to MaxDocLen tokens, the empty file included
DocTokens == {"a", "b"}
Docs == UNION {[1..n -> DocTokens] : n \in 0..MaxDocLen}

Row(text, source) == [doc_text |-> text, source |-> source]

\* RecursiveCharacterTextSplitter: windows of chunk_size with chunk_overlap
RECURSIVE SplitFrom(_, _)
SplitFrom(text, from) ==
    IF from > Len(text) THEN <<>>
    ELSE LET to == Min(Len(text), from + ChunkSize - 1)
             step == Max(1, ChunkSize - ChunkOverlap)
         IN  IF to = Len(text)
             THEN <<SubSeq(text, from, to)>>
             ELSE <<SubSeq(text, from, to)>> \o SplitFrom(text, from + step)

_split_into_chunks(text) == SplitFrom(text, 1)

\* values_list of _store_chunks: one row per chunk
RECURSIVE values_list(_, _)
values_list(chunks, source) ==
    IF chunks = <<>> THEN <<>>
    ELSE <<Row(Head(chunks), source)>> \o values_list(Tail(chunks), source)

\* the first `limit` rows of an index
TopK(index, limit) == SubSeq(index, 1, Min(limit, Len(index)))

Error(type) == [type |-> type, stage |-> "none"]
NoError == [type |-> "none", stage |-> "none"]

ProcIdle == [pc |-> "idle", chunks |-> <<>>, err |-> NoError]
NoSearch == [tool |-> "none", tag |-> "none", outcome |-> "none",
             results |-> <<>>, err |-> NoError, fresh |-> FALSE]

\* DocumentProcessor.__init__ and init_snowflake_storage: CREATE TABLE IF NOT
\* EXISTS req_docs_chunks, CREATE OR REPLACE CORTEX SEARCH SERVICE over it
init_snowflake_storage ==
    /\ proc.pc = "start"
    /\ tblExists' = tblExists \cup {REQUIREMENTS}
    /\ rows' = IF REQUIREMENTS \in tblExists THEN rows
               ELSE [rows EXCEPT ![REQUIREMENTS] = <<>>]
    /\ svcExists' = svcExists \cup {REQUIREMENTS}
    /\ svcIndex' = [svcIndex EXCEPT ![REQUIREMENTS] =
                        IF REQUIREMENTS \in tblExists THEN rows[REQUIREMENTS] ELSE <<>>]
    /\ proc' = [proc EXCEPT !.pc = "constructed"]
    /\ UNCHANGED <<lastSearch, everIngested>>
    /\ UNCHANGED pipeVars
    /\ UNCHANGED llmVars
    /\ UNCHANGED extVars

\* process_document up to the call of _store_chunks: read the file, split it
process_document ==
    /\ proc.pc = "constructed"
    /\ proc' = [proc EXCEPT !.pc = "split", !.chunks = _split_into_chunks(doc)]
    /\ UNCHANGED <<rows, tblExists, svcIndex, svcExists, lastSearch, everIngested>>
    /\ UNCHANGED pipeVars
    /\ UNCHANGED llmVars
    /\ UNCHANGED extVars

\* a _store_chunks without the TRUNCATE
TruncatedRowsKept(old) == old

\* the rows TRUNCATE TABLE leaves in the table
TruncatedRows(old) == <<>>

\* _store_chunks, first statement: TRUNCATE TABLE IF EXISTS
StoreChunksTruncate ==
    /\ proc.pc = "split"
    /\ rows' = [rows EXCEPT ![REQUIREMENTS] = TruncatedRows(rows[REQUIREMENTS])]
    /\ proc' = [proc EXCEPT !.pc = "truncated"]
    /\ UNCHANGED <<tblExists, svcIndex, svcExists, lastSearch, everIngested>>
    /\ UNCHANGED pipeVars
    /\ UNCHANGED llmVars
    /\ UNCHANGED extVars

\* the rows the INSERT of _store_chunks leaves in the table
InsertedRows(old, chunks, source) == old \o values_list(chunks, source)

\* an INSERT that also goes through with nothing to insert
InsertAccepted(chunks) == FALSE

\* the INSERT ... FROM VALUES <placeholders> is rejected by the database: with
\* no chunk the placeholder list is the empty string and the statement is malformed
InsertRejected(chunks) == chunks = <<>>

\* _store_chunks, second statement: INSERT ... FROM VALUES <placeholders>
StoreChunksInsert ==
    /\ proc.pc = "truncated"
    /\ IF InsertRejected(proc.chunks)
       THEN /\ proc' = [proc EXCEPT !.pc = "failed", !.err = Error("SQLError")]
            /\ UNCHANGED <<rows, everIngested>>
       ELSE /\ rows' = [rows EXCEPT ![REQUIREMENTS] =
                            InsertedRows(rows[REQUIREMENTS], proc.chunks, docs_path)]
            /\ everIngested' = everIngested \cup {REQUIREMENTS}
            /\ proc' = [proc EXCEPT !.pc = "stored"]
    /\ UNCHANGED <<tblExists, svcIndex, svcExists, lastSearch>>
    /\ UNCHANGED pipeVars
    /\ UNCHANGED llmVars
    /\ UNCHANGED extVars

\* TARGET_LAG = '1 hour': the service re-reads its source table in the background
RefreshIndex(d) ==
    /\ d \in svcExists
    /\ d \in tblExists
    /\ svcIndex[d] # rows[d]
    /\ svcIndex' = [svcIndex EXCEPT ![d] = rows[d]]
    /\ UNCHANGED <<rows, tblExists, svcExists, proc, lastSearch, everIngested>>
    /\ UNCHANGED pipeVars
    /\ UNCHANGED llmVars
    /\ UNCHANGED extVars

\* the service a technical search addresses
TechService(tech_stack) ==
    IF tech_stack = "streamlit" THEN STREAMLIT_DOCS ELSE ST_REF_DOCS

\* what a search on service `tag` gives: an error when the service does not
\* exist, else the top rows; then one model call that answers or fails
SearchOutcome(tool, tag, llm_ok) ==
    IF tag \notin svcExists
    THEN [tool |-> tool, tag |-> tag, outcome |-> "error", results |-> <<>>,
          err |-> Error("NotFoundError"), fresh |-> tag \notin everIngested]
    ELSE IF ~llm_ok
    THEN [tool |-> tool, tag |-> tag, outcome |-> "error",
          results |-> TopK(svcIndex[tag], SearchLimit),
          err |-> Error("ModelError"), fresh |-> tag \notin everIngested]
    ELSE [tool |-> tool, tag |-> tag, outcome |-> "ok",
          results |-> TopK(svcIndex[tag], SearchLimit),
          err |-> NoError, fresh |-> tag \notin everIngested]

\* who may call the requirements search tool now: the requirement agent while
\* its stage runs, or a direct caller of the tool
ReqToolCallable ==
    \/ variant = "tools"
    \/ variant \in {"async", "flow"} /\ status["requirements"] = "running"

\* who may call the technical search tool now: the researcher agent
TechToolCallable ==
    \/ variant = "tools"
    \/ variant \in {"async", "flow"} /\ status["patterns"] = "running"
    \/ variant = "flow" /\ status["components"] = "running"

\* a search that stores its query as a row of the requirements table
RowsAfterSearchLogged(r) ==
    [r EXCEPT ![REQUIREMENTS] = Append(@, Row(<<"query">>, "search"))]

\* the tables after a tool's _run: search_service.search and
\* cortex.complete read, no statement of _run writes
RowsAfterSearch(r) == r

\* CortexSearchRequirementsTool._run
CortexSearchRequirementsTool_run(llm_ok) ==
    /\ ReqToolCallable
    /\ lastSearch' = SearchOutcome("requirements", REQUIREMENTS, llm_ok)
    /\ lastSearch' # lastSearch
    /\ rows' = RowsAfterSearch(rows)
    /\ UNCHANGED <<tblExists, svcIndex, svcExists, proc, everIngested>>
    /\ UNCHANGED pipeVars
    /\ UNCHANGED llmVars
    /\ UNCHANGED extVars

\* CortexSearchTechnicalTool._run
CortexSearchTechnicalTool_run(tech_stack, llm_ok) ==
    /\ TechToolCallable
    /\ lastSearch' =
          IF tech_stack \notin TechStack
          THEN [tool |-> "technical", tag |-> "none", outcome |-> "error",
                results |-> <<>>, err |-> Error("ValueError"), fresh |-> TRUE]
          ELSE SearchOutcome("technical", TechService(tech_stack), llm_ok)
    /\ lastSearch' # lastSearch
    /\ rows' = RowsAfterSearch(rows)
    /\ UNCHANGED <<tblExists, svcIndex, svcExists, proc, everIngested>>
    /\ UNCHANGED pipeVars
    /\ UNCHANGED llmVars
    /\ UNCHANGED extVars

\* the path of the next upload: every upload is written to a file of its own
NextPath(p) == IF p = "upload" THEN "upload2" ELSE "upload"

\* a direct caller (a script using the tools) starts an ingestion of document d
DirectIngest(d) ==
    /\ variant = "tools"
    /\ proc.pc \in {"idle", "stored", "failed"}
    /\ doc' = d
    /\ docs_path' = NextPath(docs_path)
    /\ proc' = [pc |-> "start", chunks |-> <<>>, err |-> NoError]
    /\ UNCHANGED <<rows, tblExists, svcIndex, svcExists, lastSearch, everIngested>>
    /\ UNCHANGED <<variant, docs_uploaded, pc, status, fut, val, prompts, flowResult,
                   outcome, returned, raised, queue, log, failure, closes>>
    /\ UNCHANGED llmVars
    /\ UNCHANGED extVars

----------------------------------------------------------------------------
(* SnowflakeTableTool._run (src/src/tools/text_to_sql.py) *)

\* the phrase SnowflakeTableTool._run looks for in the table analysis
NoDataPhrase == "No Snowflake data required"

\* the text _run puts in place of the SQL when generate_sql raises
SqlErrorText == <<"SQL Generation Error: ">>

\* no call of _run yet
SqlIdle == [pc |-> "idle", generate_sql |-> FALSE, rag_generator |-> FALSE,
            analysis |-> <<>>, answer |-> <<>>, sql_calls |-> 0]

\* _run is entered with its argument generate_sql, on a tool constructed
\* with or without a rag_generator
SqlCall(generate_sql, rag_generator) ==
    [SqlIdle EXCEPT !.pc = "analysis", !.generate_sql = generate_sql,
                    !.rag_generator = rag_generator]

\* a _run that goes on to the SQL whatever the analysis says
SkipsSqlNever(tables_analysis) == FALSE

\* if "No Snowflake data required" in tables_analysis: return tables_analysis
SkipsSql(tables_analysis) == Contains(tables_analysis, <<NoDataPhrase>>)

\* if generate_sql and self._rag_generator
GeneratesSql(generate_sql, rag_generator) == generate_sql /\ rag_generator

\* _run once _get_relevant_tables has answered r: the exception leaves _run,
\* the analysis is returned as it is, or the SQL generator is called
AfterAnalysis(run, r) ==
    IF r.kind = "err" THEN [run EXCEPT !.pc = "raised"]
    ELSE IF SkipsSql(r.v)
    THEN [run EXCEPT !.pc = "returned", !.analysis = r.v, !.answer = r.v]
    ELSE IF GeneratesSql(run.generate_sql, run.rag_generator)
    THEN [run EXCEPT !.pc = "sql", !.analysis = r.v]
    ELSE [run EXCEPT !.pc = "returned", !.analysis = r.v, !.answer = r.v \o <<>>]

\* _run once self._rag_generator.generate_sql has answered r:
\* f"{tables_analysis}{generated_sql}", the error text in place of the SQL
AfterSql(run, r) ==
    [run EXCEPT !.pc = "returned",
                !.answer = run.analysis \o (IF r.kind = "ok" THEN r.v ELSE SqlErrorText),
                !.sql_calls = @ + 1]

----------------------------------------------------------------------------
(* Stages *)

Variants == {"async", "flow", "ds", "rag", "mistral", "tools", "sqltool", "ui", "llm", "loop"}

Stages == {"requirements", "data_analysis", "patterns", "components", "code",
           "ml", "viz", "sklearn_specs", "streamlit_specs"}

\* the stages each pipeline runs
StagesOf(v) ==
    CASE v = "async" -> {"requirements", "data_analysis", "patterns", "code"}
      [] v = "flow"  -> {"requirements", "data_analysis", "patterns", "components", "code"}
      [] v = "ds"    -> {"data_analysis", "ml", "viz", "code"}
      [] v \in {"rag", "mistral"} ->
            {"requirements", "sklearn_specs", "streamlit_specs", "code"}
      [] OTHER       -> {}

\* the stages whose result is handed to stage s (argument, local or self.result read)
Deps(v, s) ==
    CASE v = "async" /\ s \in {"data_analysis", "patterns"} -> {"requirements"}
      [] v = "async" /\ s = "code" -> {"requirements", "data_analysis", "patterns"}
      [] v = "flow" /\ s = "data_analysis" -> {"requirements"}
      [] v = "flow" /\ s = "patterns" -> {"data_analysis"}
      [] v = "flow" /\ s = "components" -> {"patterns"}
      [] v = "flow" /\ s = "code" -> {"components", "requirements", "data_analysis"}
      [] v = "ds" /\ s \in {"ml", "viz"} -> {"data_analysis"}
      [] v = "ds" /\ s = "code" -> {"data_analysis", "viz"}
      [] v \in {"rag", "mistral"} /\ s = "sklearn_specs" -> {"requirements"}
      [] v \in {"rag", "mistral"} /\ s = "streamlit_specs" -> {"sklearn_specs", "requirements"}
      [] v \in {"rag", "mistral"} /\ s = "code" -> {"requirements", "sklearn_specs", "streamlit_specs"}
      [] OTHER -> {}

\* the two stages each concurrent pipeline runs side by side
ParallelStages(v) ==
    CASE v = "async" -> {"data_analysis", "patterns"}
      [] v = "ds"    -> {"ml", "viz"}
      [] OTHER       -> {}

\* the field of the result object that carries stage s
FieldOf(v, s) ==
    CASE v \in {"async", "flow"} /\ s = "requirements" -> "requirements"
      [] v \in {"async", "flow"} /\ s = "data_analysis" -> "data_analysis"
      [] v \in {"async", "flow"} /\ s = "patterns" -> "reference_patterns"
      [] v \in {"async", "flow"} /\ s = "components" -> "streamlit_components"
      [] v \in {"async", "flow"} /\ s = "code" -> "final_code"
      [] v = "ds" /\ s = "data_analysis" -> "data_analysis"
      [] v = "ds" /\ s = "ml" -> "sklearn_code"
      [] v = "ds" /\ s = "viz" -> "visualization_code"
      [] v = "ds" /\ s = "code" -> "streamlit_code"
      [] v \in {"rag", "mistral"} /\ s = "requirements" -> "requirements"
      [] v \in {"rag", "mistral"} /\ s = "sklearn_specs" -> "sklearn_specs"
      [] v \in {"rag", "mistral"} /\ s = "streamlit_specs" -> "streamlit_specs"
      [] v \in {"rag", "mistral"} /\ s = "code" -> "implementation"
      [] OTHER -> "none"

Pending == [kind |-> "pending", v |-> <<>>, err |-> NoError]
Ok(t) == [kind |-> "ok", v |-> t, err |-> NoError]
Err(e) == [kind |-> "err", v |-> <<>>, err |-> e]

NoFailure == [stage |-> "none", err |-> NoError]
NoResult == <<>>

At(a) == [at |-> a, stage |-> "none"]
Kick(s) == [at |-> "kickoff", stage |-> s]
Await(s) == [at |-> "await", stage |-> s]

\* FlowResult() with its defaults
FlowResult == [requirements |-> <<>>, data_analysis |-> <<>>, reference_patterns |-> <<>>,
               streamlit_components |-> <<>>, final_code |-> <<>>]

\* one row of a technical corpus provisioned outside the repository
TechRow == Row(<<"t">>, "docs")

----------------------------------------------------------------------------
(* What the orchestrators share *)

\* a handler that wraps the exception with the stage it came from
ReraiseTagged(e, stage) == [e EXCEPT !.stage = stage]

\* `except Exception as e: logger.error(...); raise`: the handler of every
\* pipeline re-raises the exception it caught
Reraise(e, stage) == e

\* a completion that is issued on the first turn of an interaction only
CountFirstTurnOnly(c, s) == IF toolRounds[s] > 0 THEN c ELSE [c EXCEPT ![s] = @ + 1]

\* one more call of the model by the execution of stage s (client.chat.complete,
\* snowflake.cortex.complete)
CountCompletion(c, s) == [c EXCEPT ![s] = @ + 1]

\* the exception leaves the pipeline function
Raise(e, stage) ==
    /\ outcome' = "raised"
    /\ raised' = Reraise(e, stage)
    /\ pc' = At("end")

\* the result of stage s is stored in the orchestrator's variable or field
Written(l, s) == Append(l, <<"write", s>>)

\* a stage begins to execute
Begin(s) ==
    /\ status' = [status EXCEPT ![s] = "running"]
    /\ log' = Append(log, <<"start", s>>)

\* one result variable shared by the stages that run side by side
SlotWriteShared(f, s, r) ==
    [b \in DOMAIN f |->
        IF b = s \/ (s \in ParallelStages(variant) /\ b \in ParallelStages(variant))
        THEN r ELSE f[b]]

\* the outcome of stage s goes to the future of s: each crew and each
\* submitted call has a future of its own
SlotWrite(f, s, r) == [f EXCEPT ![s] = r]

\* the agent of a crew stage delivers its final answer
StageReturns(s, t) ==
    /\ variant \in {"async", "flow", "rag"}
    /\ status[s] = "running"
    /\ status' = [status EXCEPT ![s] = "done"]
    /\ fut' = SlotWrite(fut, s, Ok(t))
    /\ log' = Append(log, <<"done", s>>)
    /\ UNCHANGED <<variant, docs_uploaded, docs_path, doc, pc, val, prompts, flowResult,
                   outcome, returned, raised, queue, failure, closes>>
    /\ UNCHANGED storeVars
    /\ UNCHANGED llmVars
    /\ UNCHANGED extVars

\* the model call of a crew stage fails: CrewSnowflakeLLM.call prints and re-raises
StageRaises(s) ==
    /\ variant \in {"async", "flow", "rag"}
    /\ status[s] = "running"
    /\ status' = [status EXCEPT ![s] = "failed"]
    /\ fut' = SlotWrite(fut, s, Err(Error("ModelError")))
    /\ log' = Append(log, <<"fail", s>>)
    /\ failure' = IF failure.stage = "none"
                  THEN [stage |-> s, err |-> Error("ModelError")] ELSE failure
    /\ UNCHANGED <<variant, docs_uploaded, docs_path, doc, pc, val, prompts, flowResult,
                   outcome, returned, raised, queue, closes>>
    /\ UNCHANGED storeVars
    /\ UNCHANGED llmVars
    /\ UNCHANGED extVars

\* an ingestion that is started and not waited for
AfterInitNoWait(ingest) == Kick("requirements")

\* where the orchestrator goes after its initialisation: process_document is
\* an ordinary call, the next statement runs when it has returned
AfterInit(ingest) == IF ingest THEN At("ingest") ELSE Kick("requirements")

\* `if docs_uploaded and docs_path:` DocumentProcessor(session).process_document(...)
ProcessDocuments(v) ==
    /\ variant = v
    /\ pc = At("init")
    /\ pc' = AfterInit(docs_uploaded /\ docs_path # "None")
    /\ IF docs_uploaded /\ docs_path # "None"
       THEN /\ proc' = [pc |-> "start", chunks |-> <<>>, err |-> NoError]
       ELSE /\ UNCHANGED proc
    /\ UNCHANGED <<variant, docs_uploaded, docs_path, doc, status, fut, val, prompts,
                   flowResult, outcome, returned, raised, queue, log, failure, closes>>
    /\ UNCHANGED <<rows, tblExists, svcIndex, svcExists, lastSearch, everIngested>>
    /\ UNCHANGED llmVars
    /\ UNCHANGED extVars

\* process_document has returned or raised
IngestDone(v) ==
    /\ variant = v
    /\ pc = At("ingest")
    /\ proc.pc \in {"stored", "failed"}
    /\ IF proc.pc = "stored"
       THEN /\ pc' = Kick("requirements")
            /\ UNCHANGED <<outcome, raised>>
       ELSE Raise(proc.err, "none")
    /\ UNCHANGED <<variant, docs_uploaded, docs_path, doc, status, fut, val, prompts,
                   flowResult, returned, queue, log, failure, closes>>
    /\ UNCHANGED storeVars
    /\ UNCHANGED llmVars
    /\ UNCHANGED extVars

----------------------------------------------------------------------------
(* execute_streamlit_generation (agents/async_crew.py) *)

\* description f-string of requirements_task
AsyncRequirementsPrompt ==
    <<"User Request: ">> \o UserPrompt
        \o <<"Additional Documents: ", IF docs_uploaded THEN "Yes" ELSE "No">>

\* description f-string of data_task
AsyncDataPrompt(requirements_result) ==
    <<"OBJECTIVE: map data", "Technical Requirements: ">> \o requirements_result
        \o <<"TASK STEPS: data">>

\* description f-string of patterns_task
AsyncPatternsPrompt(requirements_result) ==
    <<"OBJECTIVE: research patterns", "Technical Requirements: ">> \o requirements_result
        \o <<"TASK STEPS: patterns">>

\* a code_task description that leaves the patterns out
AsyncCodePromptNoPatterns(requirements_result, data_result, patterns_result) ==
    <<"OBJECTIVE: generate code", "1. Requirements: ">> \o requirements_result
        \o <<"2. Data Analysis: ">> \o data_result
        \o <<"3. Patterns: ">> \o <<"DEVELOPMENT REQUIREMENTS">>

\* description f-string of code_task
AsyncCodePrompt(requirements_result, data_result, patterns_result) ==
    <<"OBJECTIVE: generate code", "1. Requirements: ">> \o requirements_result
        \o <<"2. Data Analysis: ">> \o data_result
        \o <<"3. Patterns: ">> \o patterns_result
        \o <<"DEVELOPMENT REQUIREMENTS">>

\* the FlowResult(...) the function returns
AsyncFlowResult(requirements_result, data_result, patterns_result, code_result) ==
    [requirements |-> requirements_result, data_analysis |-> data_result,
     reference_patterns |-> patterns_result, streamlit_components |-> <<>>,
     final_code |-> code_result]

\* the position the function moves to once the awaited stage s has a result
AsyncNext(s) == IF s = "requirements" THEN At("gather") ELSE At("end")

\* requirements_crew.kickoff_async / code_crew.kickoff_async is called
A_Kickoff(s) ==
    /\ variant = "async"
    /\ pc = Kick(s)
    /\ s \in {"requirements", "code"}
    /\ prompts' = [prompts EXCEPT ![s] =
            IF s = "requirements" THEN AsyncRequirementsPrompt
            ELSE AsyncCodePrompt(val["requirements"], val["data_analysis"], val["patterns"])]
    /\ Begin(s)
    /\ pc' = Await(s)
    /\ UNCHANGED <<variant, docs_uploaded, docs_path, doc, fut, val, flowResult,
                   outcome, returned, raised, queue, failure, closes>>
    /\ UNCHANGED storeVars
    /\ UNCHANGED llmVars
    /\ UNCHANGED extVars

\* `await ...kickoff_async(...)` resumes: str(output.raw), or the except clause
A_Await(s) ==
    /\ variant = "async"
    /\ pc = Await(s)
    /\ fut[s].kind # "pending"
    /\ IF fut[s].kind = "ok"
       THEN /\ val' = [val EXCEPT ![s] = Str(fut[s].v)]
            /\ log' = Written(log, s)
            /\ pc' = AsyncNext(s)
            /\ raised' = raised
            /\ IF s = "code"
               THEN /\ outcome' = "returned"
                    /\ returned' = AsyncFlowResult(val["requirements"], val["data_analysis"],
                                                   val["patterns"], Str(fut[s].v))
               ELSE UNCHANGED <<outcome, returned>>
       ELSE /\ Raise(fut[s].err, s)
            /\ UNCHANGED <<val, returned, log>>
    /\ UNCHANGED <<variant, docs_uploaded, docs_path, doc, status, fut, prompts, flowResult,
                   queue, failure, closes>>
    /\ UNCHANGED storeVars
    /\ UNCHANGED llmVars
    /\ UNCHANGED extVars

\* data_task and patterns_task are built, both kickoff_async coroutines are
\* handed to asyncio.gather, which schedules them in argument order
A_Gather ==
    /\ variant = "async"
    /\ pc = At("gather")
    /\ prompts' = [prompts EXCEPT !["data_analysis"] = AsyncDataPrompt(val["requirements"]),
                                  !["patterns"] = AsyncPatternsPrompt(val["requirements"])]
    /\ queue' = <<"data_analysis", "patterns">>
    /\ pc' = At("await_gather")
    /\ UNCHANGED <<variant, docs_uploaded, docs_path, doc, status, fut, val, flowResult,
                   outcome, returned, raised, log, failure, closes>>
    /\ UNCHANGED storeVars
    /\ UNCHANGED llmVars
    /\ UNCHANGED extVars

\* the event loop runs the first step of the next scheduled task, which hands
\* the crew to a worker thread
TaskStart ==
    /\ variant = "async"
    /\ queue # <<>>
    /\ Begin(Head(queue))
    /\ queue' = Tail(queue)
    /\ UNCHANGED <<variant, docs_uploaded, docs_path, doc, pc, fut, val, prompts, flowResult,
                   outcome, returned, raised, failure, closes>>
    /\ UNCHANGED storeVars
    /\ UNCHANGED llmVars
    /\ UNCHANGED extVars

\* the stage of set S whose failure comes first in the log
RECURSIVE FirstFailed(_, _)
FirstFailed(l, S) ==
    IF l = <<>> THEN "none"
    ELSE IF Head(l)[1] = "fail" /\ Head(l)[2] \in S THEN Head(l)[2]
    ELSE FirstFailed(Tail(l), S)

\* a gather that is done as soon as one awaited task has a result
GatherReadyAny(failed) ==
    \/ failed # {}
    \/ \E s \in ParallelStages("async") : status[s] = "done"

\* the gather future is done: an awaited task has failed, or all have a result
GatherReady(failed) ==
    \/ failed # {}
    \/ \A s \in ParallelStages("async") : status[s] = "done"

\* a gather that hands back the results in the order the tasks finished
GatherResultsAsCompleted(l) ==
    LET P == ParallelStages("async")
        first == CHOOSE s \in P :
                    \A i \in DOMAIN l, j \in DOMAIN l :
                        (l[i] = <<"done", s>> /\ l[j][1] = "done" /\ l[j][2] \in P) => i <= j
        second == CHOOSE s \in P : s # first
    IN  <<fut[first].v, fut[second].v>>

\* the list asyncio.gather returns: the results in the order of its arguments
GatherResults(l) == <<fut["data_analysis"].v, fut["patterns"].v>>

\* `await asyncio.gather(data_future, research_future)` resumes: with both
\* results, or with the first exception while the other task goes on
A_AwaitGather ==
    /\ variant = "async"
    /\ pc = At("await_gather")
    /\ queue = <<>>
    /\ LET failed == {s \in ParallelStages("async") : status[s] = "failed"}
       IN  /\ GatherReady(failed)
           /\ IF failed = {}
              THEN /\ val' = [val EXCEPT !["data_analysis"] = Str(GatherResults(log)[1]),
                                         !["patterns"] = Str(GatherResults(log)[2])]
                   /\ log' = Written(Written(log, "data_analysis"), "patterns")
                   /\ pc' = Kick("code")
                   /\ UNCHANGED <<outcome, raised>>
              ELSE /\ Raise(fut[FirstFailed(log, failed)].err, FirstFailed(log, failed))
                   /\ UNCHANGED <<val, log>>
    /\ UNCHANGED <<variant, docs_uploaded, docs_path, doc, status, fut, prompts, flowResult,
                   returned, queue, failure, closes>>
    /\ UNCHANGED storeVars
    /\ UNCHANGED llmVars
    /\ UNCHANGED extVars

----------------------------------------------------------------------------
(* StreamlitAppGenerationFlow (agents/crew.py) *)

\* the order in which @start and @listen chain the methods
FlowOrder == <<"requirements", "data_analysis", "patterns", "components", "code">>

\* a chain that runs the same stage again
NextInRepeat(order, s) == s

\* the stage after s in a chain, "none" after the last
RECURSIVE NextIn(_, _)
NextIn(order, s) ==
    IF Len(order) < 2 THEN "none"
    ELSE IF Head(order) = s THEN order[2]
    ELSE NextIn(Tail(order), s)

\* the stage before s in a chain, "none" before the first
RECURSIVE PrevIn(_, _)
PrevIn(order, s) ==
    IF Len(order) < 2 THEN "none"
    ELSE IF order[2] = s THEN Head(order)
    ELSE PrevIn(Tail(order), s)

\* the description f-string of each method's Task; arg is the value the
\* method listened to hands over, result is self.result
FlowPrompt(s, arg, result) ==
    CASE s = "requirements" ->
            <<"Input: ">> \o UserPrompt
                \o <<"Documents uploaded: ", IF docs_uploaded THEN "True" ELSE "False">>
      [] s = "data_analysis" ->
            <<"Evaluate and map Snowflake data requirements based on: ">> \o arg
                \o <<"Instructions: data">>
      [] s = "patterns" ->
            <<"Research patterns", "- data needed: ">> \o arg \o <<" and requirements.">>
      [] s = "components" ->
            <<"Validate this:">> \o arg
      [] s = "code" ->
            <<"Streamlit Components used: ">> \o arg
                \o <<"Requirements: ">> \o result.requirements
                \o <<"Data Analysis: ">> \o result.data_analysis
                \o <<"NOTE: credentials in .env">>

\* self.result.<field> = result, for the field of stage s
FlowAssign(result, s, v) ==
    CASE s = "requirements" -> [result EXCEPT !.requirements = v]
      [] s = "data_analysis" -> [result EXCEPT !.data_analysis = v]
      [] s = "patterns" -> [result EXCEPT !.reference_patterns = v]
      [] s = "components" -> [result EXCEPT !.streamlit_components = v]
      [] s = "code" -> [result EXCEPT !.final_code = v]

\* a flow method builds its Task and calls task.agent.execute_task(task)
F_execute_task(s) ==
    /\ variant = "flow"
    /\ pc = Kick(s)
    /\ prompts' = [prompts EXCEPT ![s] =
            FlowPrompt(s, IF s = "requirements" THEN <<>> ELSE val[PrevIn(FlowOrder, s)],
                       flowResult)]
    /\ Begin(s)
    /\ pc' = Await(s)
    /\ UNCHANGED <<variant, docs_uploaded, docs_path, doc, fut, val, flowResult,
                   outcome, returned, raised, queue, failure, closes>>
    /\ UNCHANGED storeVars
    /\ UNCHANGED llmVars
    /\ UNCHANGED extVars

\* execute_task has returned or raised: the method stores the result in
\* self.result and returns it (generate_final_code returns self.result), or
\* logs and re-raises
F_method_done(s) ==
    /\ variant = "flow"
    /\ pc = Await(s)
    /\ fut[s].kind # "pending"
    /\ IF fut[s].kind = "ok"
       THEN /\ flowResult' = FlowAssign(flowResult, s, fut[s].v)
            /\ val' = [val EXCEPT ![s] = fut[s].v]
            /\ log' = Written(log, s)
            /\ raised' = raised
            /\ IF s = "code"
               THEN /\ pc' = At("end")
                    /\ outcome' = "returned"
                    /\ returned' = FlowAssign(flowResult, s, fut[s].v)
               ELSE /\ pc' = Kick(NextIn(FlowOrder, s))
                    /\ UNCHANGED <<outcome, returned>>
       ELSE /\ Raise(fut[s].err, s)
            /\ UNCHANGED <<val, flowResult, returned, log>>
    /\ UNCHANGED <<variant, docs_uploaded, docs_path, doc, status, fut, prompts,
                   queue, failure, closes>>
    /\ UNCHANGED storeVars
    /\ UNCHANGED llmVars
    /\ UNCHANGED extVars

----------------------------------------------------------------------------
(* RAGProcessor.process_requirements (tools/langchain/rag_processor.py) *)

RagOrder == <<"requirements", "sklearn_specs", "streamlit_specs", "code">>

\* the input text of each agent run and the template of _generate_implementation
RagPrompt(s, v) ==
    CASE s = "requirements" -> <<"Analyze these requirements: ">> \o UserPrompt
      [] s = "sklearn_specs" ->
            <<"Research sklearn implementations for these requirements: ">>
                \o v["requirements"]
      [] s = "streamlit_specs" ->
            <<"Research Streamlit implementations that integrate with these sklearn specs: ">>
                \o v["sklearn_specs"] \o <<". Original requirements: ">> \o v["requirements"]
      [] s = "code" ->
            <<"You are a Python developer.", "Requirements: ">> \o v["requirements"]
                \o <<"Sklearn Specifications: ">> \o v["sklearn_specs"]
                \o <<"Streamlit Specifications: ">> \o v["streamlit_specs"]

\* the dictionary process_requirements returns
RagResult(v, implementation) ==
    [requirements |-> v["requirements"], sklearn_specs |-> v["sklearn_specs"],
     streamlit_specs |-> v["streamlit_specs"], implementation |-> implementation]

\* process_requirements enters its first call
R_begin ==
    /\ variant = "rag"
    /\ pc = At("init")
    /\ pc' = Kick("requirements")
    /\ UNCHANGED <<variant, docs_uploaded, docs_path, doc, status, fut, val, prompts,
                   flowResult, outcome, returned, raised, queue, log, failure, closes>>
    /\ UNCHANGED storeVars
    /\ UNCHANGED llmVars
    /\ UNCHANGED extVars

\* an agent's run (or chat_model.invoke for the implementation) is called
R_run(s) ==
    /\ variant = "rag"
    /\ pc = Kick(s)
    /\ prompts' = [prompts EXCEPT ![s] = RagPrompt(s, val)]
    /\ Begin(s)
    /\ pc' = Await(s)
    /\ UNCHANGED <<variant, docs_uploaded, docs_path, doc, fut, val, flowResult,
                   outcome, returned, raised, queue, failure, closes>>
    /\ UNCHANGED storeVars
    /\ UNCHANGED llmVars
    /\ UNCHANGED extVars

\* the call has returned or raised; nothing catches the exception
R_done(s) ==
    /\ variant = "rag"
    /\ pc = Await(s)
    /\ fut[s].kind # "pending"
    /\ IF fut[s].kind = "ok"
       THEN /\ val' = [val EXCEPT ![s] = fut[s].v]
            /\ log' = Written(log, s)
            /\ raised' = raised
            /\ IF s = "code"
               THEN /\ pc' = At("end")
                    /\ outcome' = "returned"
                    /\ returned' = RagResult(val, fut[s].v)
               ELSE /\ pc' = Kick(NextIn(RagOrder, s))
                    /\ UNCHANGED <<outcome, returned>>
       ELSE /\ outcome' = "raised"
            /\ raised' = fut[s].err
            /\ pc' = At("end")
            /\ UNCHANGED <<val, returned, log>>
    /\ UNCHANGED <<variant, docs_uploaded, docs_path, doc, status, fut, prompts, flowResult,
                   queue, failure, closes>>
    /\ UNCHANGED storeVars
    /\ UNCHANGED llmVars
    /\ UNCHANGED extVars

----------------------------------------------------------------------------
(* MistralRAGProcessor as main() drives it (mistral_agents.py) *)

MistralOrder == <<"requirements", "sklearn_specs", "streamlit_specs", "code">>

\* the stages whose method passes tools to _process_mistral_interaction;
\* generate_code calls client.chat.complete once, without tools
MistralToolStages == {"requirements", "sklearn_specs", "streamlit_specs"}

\* the user message of each method
MistralPrompt(s, v) ==
    CASE s = "requirements" -> <<"Analyze these requirements: ">> \o UserPrompt
      [] s = "sklearn_specs" ->
            <<"Research sklearn implementations for these requirements: ">>
                \o v["requirements"]
      [] s = "streamlit_specs" ->
            <<"Research Streamlit implementations that integrate with these sklearn specs: ">>
                \o v["sklearn_specs"] \o <<"Original requirements: ">> \o v["requirements"]
      [] s = "code" ->
            <<"Generate Python implementation based on:", "Requirements: ">>
                \o v["requirements"]
                \o <<"Sklearn Specifications: ">> \o v["sklearn_specs"]
                \o <<"Streamlit Specifications: ">> \o v["streamlit_specs"]

\* the results main() shows and saves
MistralResults(v, final_code) ==
    [requirements |-> v["requirements"], sklearn_specs |-> v["sklearn_specs"],
     streamlit_specs |-> v["streamlit_specs"], implementation |-> final_code]

ToolCall(s) == [at |-> "tool", stage |-> s]

\* processor = MistralRAGProcessor()
M_begin ==
    /\ variant = "mistral"
    /\ pc = At("init")
    /\ pc' = Kick("requirements")
    /\ UNCHANGED <<variant, docs_uploaded, docs_path, doc, status, fut, val, prompts,
                   flowResult, outcome, returned, raised, queue, log, failure, closes>>
    /\ UNCHANGED storeVars
    /\ UNCHANGED llmVars
    /\ UNCHANGED extVars

\* main() calls the method of stage s, which builds its messages
M_call(s) ==
    /\ variant = "mistral"
    /\ pc = Kick(s)
    /\ prompts' = [prompts EXCEPT ![s] = MistralPrompt(s, val)]
    /\ Begin(s)
    /\ pc' = Await(s)
    /\ UNCHANGED <<variant, docs_uploaded, docs_path, doc, fut, val, flowResult,
                   outcome, returned, raised, queue, failure, closes>>
    /\ UNCHANGED storeVars
    /\ UNCHANGED llmVars
    /\ UNCHANGED extVars

\* one turn of `while True`: client.chat.complete answers with content, with
\* tool calls, or raises
M_complete(s, r, tool_calls) ==
    /\ variant = "mistral"
    /\ pc = Await(s)
    /\ status[s] = "running"
    /\ tool_calls => (s \in MistralToolStages /\ r.kind = "ok"
                        /\ toolRounds[s] < MaxToolRounds)
    /\ r.kind = "ok" => r.v # NoneVal
    /\ completions' = CountCompletion(completions, s)
    /\ IF tool_calls
       THEN /\ toolRounds' = [toolRounds EXCEPT ![s] = @ + 1]
            /\ pc' = ToolCall(s)
            /\ UNCHANGED <<status, fut, log, failure>>
       ELSE /\ fut' = SlotWrite(fut, s, r)
            /\ status' = [status EXCEPT ![s] = IF r.kind = "ok" THEN "done" ELSE "failed"]
            /\ log' = Append(log, <<IF r.kind = "ok" THEN "done" ELSE "fail", s>>)
            /\ failure' = IF r.kind = "err" /\ failure.stage = "none"
                          THEN [stage |-> s, err |-> r.err] ELSE failure
            /\ UNCHANGED <<toolRounds, pc>>
    /\ UNCHANGED <<variant, docs_uploaded, docs_path, doc, val, prompts, flowResult,
                   outcome, returned, raised, queue, closes>>
    /\ UNCHANGED storeVars
    /\ UNCHANGED extVars

\* the tool calls of the response are executed: search_requirements or
\* search_technical_docs returns its results, which are added to the
\* messages, or the lookup of the search service raises
M_tool(s, found) ==
    /\ variant = "mistral"
    /\ pc = ToolCall(s)
    /\ IF found
       THEN /\ pc' = Await(s)
            /\ UNCHANGED <<status, fut, log, failure>>
       ELSE /\ fut' = SlotWrite(fut, s, Err(Error("NotFoundError")))
            /\ status' = [status EXCEPT ![s] = "failed"]
            /\ log' = Append(log, <<"fail", s>>)
            /\ failure' = IF failure.stage = "none"
                          THEN [stage |-> s, err |-> Error("NotFoundError")] ELSE failure
            /\ pc' = Await(s)
    /\ UNCHANGED <<variant, docs_uploaded, docs_path, doc, val, prompts, flowResult,
                   outcome, returned, raised, queue, closes>>
    /\ UNCHANGED storeVars
    /\ UNCHANGED llmVars
    /\ UNCHANGED extVars

\* the method has returned its content to main(), or its exception leaves it
M_done(s) ==
    /\ variant = "mistral"
    /\ pc = Await(s)
    /\ fut[s].kind # "pending"
    /\ IF fut[s].kind = "ok"
       THEN /\ val' = [val EXCEPT ![s] = fut[s].v]
            /\ log' = Written(log, s)
            /\ raised' = raised
            /\ IF s = "code"
               THEN /\ pc' = At("end")
                    /\ outcome' = "returned"
                    /\ returned' = MistralResults(val, fut[s].v)
               ELSE /\ pc' = Kick(NextIn(MistralOrder, s))
                    /\ UNCHANGED <<outcome, returned>>
       ELSE /\ Raise(fut[s].err, s)
            /\ UNCHANGED <<val, returned, log>>
    /\ UNCHANGED <<variant, docs_uploaded, docs_path, doc, status, fut, prompts, flowResult,
                   queue, failure, closes>>
    /\ UNCHANGED storeVars
    /\ UNCHANGED llmVars
    /\ UNCHANGED extVars

----------------------------------------------------------------------------
(* DataScienceFlow.execute_flow (agents/custom_agents.py) and its tools *)

\* the texts the table-analysis completion can be
AnalysisTexts == {<<"x">>, <<NoDataPhrase>>}

\* result_as_answer=True, as initialize_tools constructs every tool
result_as_answer == TRUE

\* get_data_analysis_prompt
get_data_analysis_prompt(base_prompt) ==
    <<"Task: Generate Snowflake SQL queries", "Requirements:">> \o base_prompt
        \o <<"Expected Output: data">>

\* get_ml_prompt
get_ml_prompt(base_prompt, data_context) ==
    <<"Task: Generate a complete scikit-learn implementation", "Data Context:">>
        \o data_context \o <<"Requirements:">> \o base_prompt \o <<"Expected Output: ml">>

\* get_viz_prompt
get_viz_prompt(base_prompt, data_context) ==
    <<"Task: Generate matplotlib visualization functions", "Data Context:">>
        \o data_context \o <<"Requirements:">> \o base_prompt \o <<"Expected Output: viz">>

\* SnowflakeTableTool._get_relevant_tables: the prompt of the table analysis
TablesPrompt(query) ==
    <<"Available Tables Information:", "tables_context", "Query: ">> \o query
        \o <<"If no relevant tables are found, respond with: ", NoDataPhrase>>

\* RAGSklearnGenerator.create_prompt / RAGPythonGenerator.create_prompt
create_prompt(question, data_context) ==
    <<"[INST]", "Task: ">> \o question \o <<"Available Data Context:">> \o data_context
        \o <<"examples">> \o <<"generate code for the original task:">> \o question
        \o <<"[/INST]">>

\* generate_python: create_prompt(question, examples) leaves data_context at
\* its default, the empty string
PythonPrompt(question, data_context) == create_prompt(question, <<>>)

\* the prompt of generate_streamlit_code
StreamlitPrompt(data_analysis, viz_code) ==
    <<"Revise this streamlit app", "- Data needed or can be user:">> \o Str(data_analysis)
        \o <<"- visualization idea:">> \o Str(viz_code)
        \o <<"This is the current code and data explanation:", "STREAMLIT_TEMPLATE">>

\* AnalysisResult(...)
AnalysisResult(data_analysis, sklearn_code, viz_code, streamlit_code) ==
    [data_analysis |-> data_analysis, sklearn_code |-> sklearn_code,
     visualization_code |-> viz_code, streamlit_code |-> streamlit_code]

\* the outcomes of one Cortex completion: a text, a response without
\* 'choices', or an exception
Completions(texts) == {Ok(t) : t \in texts} \cup {Ok(NoneVal), Err(Error("ModelError"))}

\* run_cortex_complete(...).strip() of generate_python: a response without
\* choices makes run_cortex_complete return None, and None has no strip
generate_python(r) ==
    IF r.kind = "ok" /\ r.v = NoneVal THEN Err(Error("AttributeError")) ELSE r

\* _run of the sklearn and matplotlib tools: any exception becomes a RuntimeError
Tool_run(r) ==
    IF r.kind = "err" THEN Err(Error("RuntimeError")) ELSE r

\* the text run() returns in place of an exception
FailedText(s) ==
    IF s = "ml" THEN <<"Failed to generate code: ">>
    ELSE <<"Failed to generate visualization code: ">>

\* run of SklearnImplementationTool / MatplotlibVisualizationTool
ToolRun(s, r, as_answer) ==
    IF Tool_run(r).kind = "err" /\ as_answer THEN Ok(FailedText(s)) ELSE Tool_run(r)

\* the position after each step of execute_flow
DsNext(at) ==
    CASE at = "submit_ml" -> At("submit_viz")
      [] at = "submit_viz" -> At("result_ml")
      [] at = "result_ml" -> At("result_viz")
      [] at = "result_viz" -> At("streamlit")

\* a finally clause that leaves the session open
SessionCloseSkipped == closes' = closes

\* the finally clause: self.session.close()
SessionClose == closes' = closes + 1

\* analyze_data: snowflake_tool.run(query=prompt, generate_sql=True) is entered
D_analyze_data ==
    /\ variant = "ds"
    /\ pc = At("init")
    /\ prompts' = [prompts EXCEPT !["data_analysis"] =
                        TablesPrompt(get_data_analysis_prompt(UserPrompt))]
    /\ Begin("data_analysis")
    /\ pc' = At("tables_analysis")
    /\ UNCHANGED <<variant, docs_uploaded, docs_path, doc, fut, val, flowResult,
                   outcome, returned, raised, queue, failure, closes>>
    /\ UNCHANGED storeVars
    /\ UNCHANGED llmVars
    /\ sqlRun' = SqlCall(TRUE, TRUE)
    /\ UNCHANGED <<session_state, ui, litellm, loop>>

\* SnowflakeTableTool._run up to its first return: the table analysis fails
\* (the exception reaches execute_flow), contains the phrase (returned as it
\* is), or is kept for the SQL generation
D_get_relevant_tables(r) ==
    /\ variant = "ds"
    /\ pc = At("tables_analysis")
    /\ r \in {Ok(t) : t \in AnalysisTexts} \cup {Err(Error("ModelError"))}
    /\ sqlRun' = AfterAnalysis(sqlRun, r)
    /\ IF sqlRun'.pc = "raised"
       THEN /\ status' = [status EXCEPT !["data_analysis"] = "failed"]
            /\ fut' = [fut EXCEPT !["data_analysis"] = r]
            /\ log' = Append(log, <<"fail", "data_analysis">>)
            /\ failure' = IF failure.stage = "none"
                          THEN [stage |-> "data_analysis", err |-> r.err] ELSE failure
            /\ Raise(r.err, "data_analysis")
            /\ SessionClose
            /\ UNCHANGED val
       ELSE IF sqlRun'.pc = "returned"
       THEN /\ status' = [status EXCEPT !["data_analysis"] = "done"]
            /\ fut' = [fut EXCEPT !["data_analysis"] = Ok(sqlRun'.answer)]
            /\ val' = [val EXCEPT !["data_analysis"] = sqlRun'.answer]
            /\ log' = Written(Append(log, <<"done", "data_analysis">>), "data_analysis")
            /\ pc' = At("submit_ml")
            /\ UNCHANGED <<failure, outcome, raised, closes>>
       ELSE /\ fut' = [fut EXCEPT !["data_analysis"] = [Pending EXCEPT !.v = r.v]]
            /\ pc' = At("generate_sql")
            /\ UNCHANGED <<status, val, log, failure, outcome, raised, closes>>
    /\ UNCHANGED <<variant, docs_uploaded, docs_path, doc, prompts, flowResult,
                   returned, queue>>
    /\ UNCHANGED storeVars
    /\ completions' = CountCompletion(completions, "data_analysis")
    /\ UNCHANGED toolRounds
    /\ UNCHANGED <<session_state, ui, litellm, loop>>

\* SnowflakeTableTool._run, the generate_sql branch: the SQL, or the error
\* text in its place, is appended to the analysis
D_generate_sql(r) ==
    /\ variant = "ds"
    /\ pc = At("generate_sql")
    /\ r \in {Ok(t) : t \in LLMTexts} \cup {Err(Error("ModelError"))}
    /\ sqlRun' = AfterSql(sqlRun, r)
    /\ status' = [status EXCEPT !["data_analysis"] = "done"]
    /\ fut' = [fut EXCEPT !["data_analysis"] = Ok(sqlRun'.answer)]
    /\ val' = [val EXCEPT !["data_analysis"] = sqlRun'.answer]
    /\ log' = Written(IF r.kind = "ok" THEN Append(log, <<"done", "data_analysis">>)
                      ELSE log \o << <<"fail", "data_analysis">>, <<"done", "data_analysis">> >>,
                      "data_analysis")
    /\ failure' = IF r.kind = "err" /\ failure.stage = "none"
                  THEN [stage |-> "data_analysis", err |-> r.err] ELSE failure
    /\ pc' = At("submit_ml")
    /\ UNCHANGED <<variant, docs_uploaded, docs_path, doc, prompts, flowResult,
                   outcome, returned, raised, queue, closes>>
    /\ UNCHANGED storeVars
    /\ completions' = CountCompletion(completions, "data_analysis")
    /\ UNCHANGED toolRounds
    /\ UNCHANGED <<session_state, ui, litellm, loop>>

\* SnowflakeTableTool._run called on its own (an agent of the crews calls the
\* tool, which they construct without a rag_generator, with the arguments the
\* agent chooses)
T_run(generate_sql, rag_generator) ==
    /\ variant = "sqltool"
    /\ sqlRun.pc = "idle"
    /\ sqlRun' = SqlCall(generate_sql, rag_generator)
    /\ UNCHANGED pipeVars
    /\ UNCHANGED storeVars
    /\ UNCHANGED llmVars
    /\ UNCHANGED <<session_state, ui, litellm, loop>>

\* tables_analysis = self._get_relevant_tables(query, tables_context) and the
\* test for the phrase
T_get_relevant_tables(r) ==
    /\ variant = "sqltool"
    /\ sqlRun.pc = "analysis"
    /\ r \in {Ok(t) : t \in AnalysisTexts} \cup {Err(Error("ModelError"))}
    /\ sqlRun' = AfterAnalysis(sqlRun, r)
    /\ UNCHANGED pipeVars
    /\ UNCHANGED storeVars
    /\ UNCHANGED llmVars
    /\ UNCHANGED <<session_state, ui, litellm, loop>>

\* self._rag_generator.generate_sql(...) inside try/except, then the return
T_generate_sql(r) ==
    /\ variant = "sqltool"
    /\ sqlRun.pc = "sql"
    /\ r \in {Ok(t) : t \in LLMTexts} \cup {Err(Error("ModelError"))}
    /\ sqlRun' = AfterSql(sqlRun, r)
    /\ UNCHANGED pipeVars
    /\ UNCHANGED storeVars
    /\ UNCHANGED llmVars
    /\ UNCHANGED <<session_state, ui, litellm, loop>>

\* executor.submit(self.generate_ml_code, ...) / executor.submit(self.generate_viz_code, ...)
D_submit(s) ==
    /\ variant = "ds"
    /\ \/ s = "ml" /\ pc = At("submit_ml")
       \/ s = "viz" /\ pc = At("submit_viz")
    /\ prompts' = [prompts EXCEPT ![s] =
            PythonPrompt(IF s = "ml" THEN get_ml_prompt(UserPrompt, val["data_analysis"])
                         ELSE get_viz_prompt(UserPrompt, val["data_analysis"]),
                         val["data_analysis"])]
    /\ queue' = Append(queue, s)
    /\ pc' = DsNext(pc.at)
    /\ UNCHANGED <<variant, docs_uploaded, docs_path, doc, status, fut, val, flowResult,
                   outcome, returned, raised, log, failure, closes>>
    /\ UNCHANGED storeVars
    /\ UNCHANGED llmVars
    /\ UNCHANGED extVars

\* a pool of a single worker thread
WorkerFreeSingle == {s \in ParallelStages("ds") : status[s] = "running"} = {}

\* a worker thread of the pool is free to take a submitted call
WorkerFree == Cardinality({s \in ParallelStages("ds") : status[s] = "running"}) < max_workers

\* a pool thread takes the next submitted call
WorkerStart ==
    /\ variant = "ds"
    /\ queue # <<>>
    /\ WorkerFree
    /\ Begin(Head(queue))
    /\ queue' = Tail(queue)
    /\ UNCHANGED <<variant, docs_uploaded, docs_path, doc, pc, fut, val, prompts, flowResult,
                   outcome, returned, raised, failure, closes>>
    /\ UNCHANGED storeVars
    /\ UNCHANGED llmVars
    /\ UNCHANGED extVars

\* sklearn_tool.run / viz_tool.run finishes in its thread
D_tool_run(s, r) ==
    /\ variant = "ds"
    /\ s \in ParallelStages("ds")
    /\ status[s] = "running"
    /\ r \in Completions(LLMTexts)
    /\ LET inner == generate_python(r)
           res == ToolRun(s, inner, result_as_answer)
       IN  /\ fut' = SlotWrite(fut, s, res)
           /\ status' = [status EXCEPT ![s] = IF res.kind = "ok" THEN "done" ELSE "failed"]
           /\ log' = IF inner.kind = "ok" THEN Append(log, <<"done", s>>)
                     ELSE IF res.kind = "ok" THEN log \o << <<"fail", s>>, <<"done", s>> >>
                     ELSE Append(log, <<"fail", s>>)
           /\ failure' = IF inner.kind = "err" /\ failure.stage = "none"
                         THEN [stage |-> s, err |-> inner.err] ELSE failure
    /\ UNCHANGED <<variant, docs_uploaded, docs_path, doc, pc, val, prompts, flowResult,
                   outcome, returned, raised, queue, closes>>
    /\ UNCHANGED storeVars
    /\ completions' = CountCompletion(completions, s)
    /\ UNCHANGED toolRounds
    /\ UNCHANGED extVars

\* future_ml.result() / future_viz.result(); an exception leaves the with
\* block once the pool has no running call, then the handler and the finally
D_result(s) ==
    /\ variant = "ds"
    /\ \/ s = "ml" /\ pc = At("result_ml")
       \/ s = "viz" /\ pc = At("result_viz")
    /\ fut[s].kind # "pending"
    /\ IF fut[s].kind = "ok"
       THEN /\ val' = [val EXCEPT ![s] = fut[s].v]
            /\ log' = Written(log, s)
            /\ pc' = DsNext(pc.at)
            /\ UNCHANGED <<outcome, raised, closes>>
       ELSE /\ queue = <<>>
            /\ \A o \in ParallelStages("ds") : status[o] # "running"
            /\ Raise(fut[s].err, s)
            /\ SessionClose
            /\ UNCHANGED <<val, log>>
    /\ UNCHANGED <<variant, docs_uploaded, docs_path, doc, status, fut, prompts, flowResult,
                   returned, queue, failure>>
    /\ UNCHANGED storeVars
    /\ UNCHANGED llmVars
    /\ UNCHANGED extVars

\* generate_streamlit_code is entered: the prompt is built
D_generate_streamlit_code ==
    /\ variant = "ds"
    /\ pc = At("streamlit")
    /\ prompts' = [prompts EXCEPT !["code"] =
                        StreamlitPrompt(val["data_analysis"], val["viz"])]
    /\ Begin("code")
    /\ pc' = Await("code")
    /\ UNCHANGED <<variant, docs_uploaded, docs_path, doc, fut, val, flowResult,
                   outcome, returned, raised, queue, failure, closes>>
    /\ UNCHANGED storeVars
    /\ UNCHANGED llmVars
    /\ UNCHANGED extVars

\* what generate_streamlit_code returns for a completion: the text of the
\* first choice, or the parsed response itself when it has no choices
StreamlitReturn(r) == r

\* the completion of generate_streamlit_code comes back
D_cortex_complete(r) ==
    /\ variant = "ds"
    /\ status["code"] = "running"
    /\ r \in Completions(LLMTexts)
    /\ fut' = [fut EXCEPT !["code"] = StreamlitReturn(r)]
    /\ status' = [status EXCEPT !["code"] = IF r.kind = "ok" THEN "done" ELSE "failed"]
    /\ log' = Append(log, <<IF r.kind = "ok" THEN "done" ELSE "fail", "code">>)
    /\ failure' = IF r.kind = "err" /\ failure.stage = "none"
                  THEN [stage |-> "code", err |-> r.err] ELSE failure
    /\ UNCHANGED <<variant, docs_uploaded, docs_path, doc, pc, val, prompts, flowResult,
                   outcome, returned, raised, queue, closes>>
    /\ UNCHANGED storeVars
    /\ completions' = CountCompletion(completions, "code")
    /\ UNCHANGED toolRounds
    /\ UNCHANGED extVars

\* execute_flow returns AnalysisResult(...) or re-raises; finally closes the session
D_return ==
    /\ variant = "ds"
    /\ pc = Await("code")
    /\ fut["code"].kind # "pending"
    /\ IF fut["code"].kind = "ok"
       THEN /\ val' = [val EXCEPT !["code"] = fut["code"].v]
            /\ log' = Written(log, "code")
            /\ returned' = AnalysisResult(val["data_analysis"], val["ml"], val["viz"],
                                          fut["code"].v)
            /\ outcome' = "returned"
            /\ pc' = At("end")
            /\ UNCHANGED raised
       ELSE /\ Raise(fut["code"].err, "code")
            /\ UNCHANGED <<val, returned, log>>
    /\ SessionClose
    /\ UNCHANGED <<variant, docs_uploaded, docs_path, doc, status, fut, prompts, flowResult,
                   queue, failure>>
    /\ UNCHANGED storeVars
    /\ UNCHANGED llmVars
    /\ UNCHANGED extVars

----------------------------------------------------------------------------
(* Specification *)

----------------------------------------------------------------------------
(* The generator page (src/src/Home.py) and the Generated App page         *)
(* (src/src/pages/1_Generated_App.py). A generated code is named by the    *)
(* number of the attempt that produced it.                                 *)

\* Python's None in generated_code and app_results
NoCode == 0

\* edited_code = None
NoText == [kind |-> "None", gen |-> NoCode]

\* the keys both init_session_state functions create, with their defaults
SessionDefaults ==
    [is_generating |-> FALSE, generated_code |-> NoCode, app_results |-> NoCode,
     edited_code |-> NoText, is_executing |-> FALSE, execution_requested |-> FALSE]

\* no script run yet: nothing shown in the editor, nothing executed
UiIdle == [pc |-> "idle", attempt |-> 0, lastSuccess |-> NoCode, last |-> "none",
           shown |-> [code |-> NoCode, newest |-> NoCode],
           exec |-> [outcome |-> "none", code |-> NoCode, newest |-> NoCode]]

\* a handler that also drops the code of the previous run
OnExceptionClearsCode(state) ==
    [state EXCEPT !.is_generating = FALSE, !.generated_code = NoCode]

\* a handler that leaves is_generating as it is
OnExceptionKeepsGenerating(state) == state

\* except Exception: st.error, st.exception, is_generating = False
OnException(state) == [state EXCEPT !.is_generating = FALSE]

\* "Generate App" is pressed with a prompt while the form is shown
Home_generate ==
    /\ variant = "ui"
    /\ ui.pc = "idle"
    /\ ~session_state.is_generating
    /\ ui.attempt < MaxGenerations
    /\ session_state' = [session_state EXCEPT !.is_generating = TRUE]
    /\ ui' = [ui EXCEPT !.pc = "generating", !.attempt = @ + 1]
    /\ UNCHANGED pipeVars
    /\ UNCHANGED storeVars
    /\ UNCHANGED llmVars
    /\ UNCHANGED <<sqlRun, litellm, loop>>

\* the upload is saved, create_crew and crew.kickoff() run: they return, or
\* one of them raises and the handler ends the script run
Home_kickoff(ok) ==
    /\ variant = "ui"
    /\ ui.pc = "generating"
    /\ IF ok
       THEN /\ ui' = [ui EXCEPT !.pc = "store_code"]
            /\ UNCHANGED session_state
       ELSE /\ session_state' = OnException(session_state)
            /\ ui' = [ui EXCEPT !.pc = "idle", !.last = "failed"]
    /\ UNCHANGED pipeVars
    /\ UNCHANGED storeVars
    /\ UNCHANGED llmVars
    /\ UNCHANGED <<sqlRun, litellm, loop>>

\* st.session_state.generated_code = coder_task.output.raw
Home_store_code ==
    /\ variant = "ui"
    /\ ui.pc = "store_code"
    /\ session_state' = [session_state EXCEPT !.generated_code = ui.attempt]
    /\ ui' = [ui EXCEPT !.pc = "store_results"]
    /\ UNCHANGED pipeVars
    /\ UNCHANGED storeVars
    /\ UNCHANGED llmVars
    /\ UNCHANGED <<sqlRun, litellm, loop>>

\* st.session_state.app_results = {...}, st.success: the script run ends
Home_store_results ==
    /\ variant = "ui"
    /\ ui.pc = "store_results"
    /\ session_state' = [session_state EXCEPT !.app_results = ui.attempt]
    /\ ui' = [ui EXCEPT !.pc = "idle", !.last = "succeeded", !.lastSuccess = ui.attempt]
    /\ UNCHANGED pipeVars
    /\ UNCHANGED storeVars
    /\ UNCHANGED llmVars
    /\ UNCHANGED <<sqlRun, litellm, loop>>

\* "Generate Another App" is pressed on the page shown while is_generating
Home_reset ==
    /\ variant = "ui"
    /\ ui.pc = "idle"
    /\ session_state.is_generating
    /\ session_state' = [session_state EXCEPT !.is_generating = FALSE]
    /\ ui' = [ui EXCEPT !.last = "reset"]
    /\ UNCHANGED pipeVars
    /\ UNCHANGED storeVars
    /\ UNCHANGED llmVars
    /\ UNCHANGED <<sqlRun, litellm, loop>>

\* extract_python_code: the code inside the text, "" when there is none
extract_python_code(text) ==
    IF text.kind = "code" THEN text ELSE [text EXCEPT !.kind = "empty"]

\* sanitize_code: the set_page_config call is commented out
sanitize_code(code) == code

\* bool(edited_code): None and "" are false, any other text is true
Truthy(text) == text.kind \in {"blank", "code"}

\* code_editor_interface: edited_code is loaded from generated_code only
\* while it is None
LoadEditor(state) ==
    IF state.edited_code = NoText /\ state.generated_code # NoCode
    THEN extract_python_code([kind |-> "code", gen |-> state.generated_code])
    ELSE state.edited_code

\* what the user may have done in the editor before this script run
Edits == {"keep", "code", "blank", "clear"}

\* st_ace(value=..., key="ace_editor"): the content of the editor
st_ace(value, user) ==
    CASE user = "keep"  -> value
      [] user = "code"  -> [value EXCEPT !.kind = "code"]
      [] user = "blank" -> [value EXCEPT !.kind = "blank"]
      [] user = "clear" -> [value EXCEPT !.kind = "empty"]

\* guards that let the code run without a request
MayExecuteUnrequested(state) == Truthy(state.edited_code) /\ ~state.is_executing

\* the two early returns of execute_generated_code, negated
MayExecute(state) ==
    /\ Truthy(state.edited_code)
    /\ state.execution_requested
    /\ ~state.is_executing

\* finally: is_executing = False, execution_requested = False
Finally(state) == [state EXCEPT !.is_executing = FALSE, !.execution_requested = FALSE]

\* one script run of the Generated App page up to the try block of
\* execute_generated_code: the editor is filled and read; "Run Code" sets
\* execution_requested and reruns; else the code is executed if the guards allow
Page_editor(user, submit) ==
    /\ variant = "ui"
    /\ ui.pc = "idle"
    /\ session_state.generated_code # NoCode
    /\ LET typed == st_ace(LoadEditor(session_state), user)
           edited == [session_state EXCEPT !.edited_code = typed]
           shown == [code |-> typed.gen, newest |-> session_state.generated_code]
       IN  IF submit
           THEN /\ session_state' = [edited EXCEPT !.execution_requested = TRUE]
                /\ ui' = [ui EXCEPT !.shown = shown]
           ELSE IF Truthy(typed) /\ MayExecute(edited)
           THEN /\ session_state' = [edited EXCEPT !.is_executing = TRUE]
                /\ ui' = [ui EXCEPT !.shown = shown, !.pc = "executing"]
           ELSE /\ session_state' = edited
                /\ ui' = [ui EXCEPT !.shown = shown]
    /\ UNCHANGED pipeVars
    /\ UNCHANGED storeVars
    /\ UNCHANGED llmVars
    /\ UNCHANGED <<sqlRun, litellm, loop>>

\* the try block of execute_generated_code: no code is found ("empty", the
\* return inside try), or exec(code) and main() run, raise an Exception, or
\* are stopped by st.rerun/st.stop; then the finally clause
Page_exec(result) ==
    /\ variant = "ui"
    /\ ui.pc = "executing"
    /\ LET code == sanitize_code(extract_python_code(session_state.edited_code))
       IN  result \in (IF code.kind = "code" THEN {"ran", "raised", "stopped"} ELSE {"empty"})
    /\ session_state' = Finally(session_state)
    /\ ui' = [ui EXCEPT !.pc = "idle",
                        !.exec = [outcome |-> result,
                                  code |-> session_state.edited_code.gen,
                                  newest |-> session_state.generated_code]]
    /\ UNCHANGED pipeVars
    /\ UNCHANGED storeVars
    /\ UNCHANGED llmVars
    /\ UNCHANGED <<sqlRun, litellm, loop>>

----------------------------------------------------------------------------
(* CrewSnowflakeLLM (src/src/custom_cortex_llm) *)

\* the three modules that define a CrewSnowflakeLLM
Modules == {"litellm_cortex", "test_cortex_llm", "snowflake_mistral_agents"}

Sessions == {"session1", "session2"}
ModelNames == {"mistral-large2", "mistral-large"}
Instances == {1, 2}

\* SnowflakeCortexLLM(session=..., model_name=...)
SnowflakeCortexLLM(session, model_name) == [session |-> session, model_name |-> model_name]

NoHandler == SnowflakeCortexLLM("none", "none")

\* the module is imported: litellm_cortex opens a session of its own and
\* registers a handler on it; the other two register nothing
ModuleLoaded(m) ==
    [module |-> m,
     custom_provider_map |-> IF m = "litellm_cortex"
                             THEN SnowflakeCortexLLM("module", "mistral-large2")
                             ELSE NoHandler,
     cortex_llm |-> [i \in Instances |-> NoHandler],
     last |-> [instance |-> 0, session |-> "none", model_name |-> "none"]]

\* CrewSnowflakeLLM.__init__: self.cortex_llm = SnowflakeCortexLLM(...) and
\* litellm.custom_provider_map = [{..., "custom_handler": self.cortex_llm}]
Llm_init(i, session, model_name) ==
    /\ variant = "llm"
    /\ litellm.cortex_llm[i] = NoHandler
    /\ litellm' = [litellm EXCEPT
                        !.cortex_llm[i] = SnowflakeCortexLLM(session, model_name),
                        !.custom_provider_map = SnowflakeCortexLLM(session, model_name)]
    /\ UNCHANGED pipeVars
    /\ UNCHANGED storeVars
    /\ UNCHANGED llmVars
    /\ UNCHANGED <<sqlRun, session_state, ui, loop>>

\* the handler whose completion() serves call() of instance i:
\* litellm.completion(model="snowflake-cortex/...") looks the provider up in
\* litellm.custom_provider_map; snowflake_mistral_agents calls self.cortex_llm
Handler(state, i) ==
    IF state.module = "snowflake_mistral_agents" THEN state.cortex_llm[i]
    ELSE state.custom_provider_map

\* CrewSnowflakeLLM.call: SnowflakeCortexLLM.completion runs
\* self.session.sql("SELECT snowflake.cortex.complete(?, ?)", (self.model_name, prompt))
Llm_call(i) ==
    /\ variant = "llm"
    /\ litellm.cortex_llm[i] # NoHandler
    /\ litellm' = [litellm EXCEPT !.last =
                        [instance |-> i,
                         session |-> Handler(litellm, i).session,
                         model_name |-> Handler(litellm, i).model_name]]
    /\ UNCHANGED pipeVars
    /\ UNCHANGED storeVars
    /\ UNCHANGED llmVars
    /\ UNCHANGED <<sqlRun, session_state, ui, loop>>

----------------------------------------------------------------------------
(* MistralRAGProcessor._process_mistral_interaction (src/src/mistral_agents.py), *)
(* one call of it, turn by turn                                            *)

\* a tool call of a response: tool_call.id and tool_call.function.name, a
\* key of function_map
ToolCalls == [id : {"id1", "id2"}, name : {"search_requirements", "search_technical_docs"}]

\* the tool_calls a response can carry, none included
ToolCallLists == UNION {[1..n -> ToolCalls] : n \in 0..MaxCalls}

\* the two messages messages.extend adds for one executed tool call
Exchange(tool_call) ==
    << [role |-> "assistant", id |-> tool_call.id, name |-> tool_call.name],
       [role |-> "tool", id |-> tool_call.id, name |-> tool_call.name] >>

\* the function is entered: before the first client.chat.complete
LoopStart == [pc |-> "complete", tool_calls |-> <<>>, i |-> 0,
              executed |-> <<>>, added |-> <<>>, content |-> <<>>]

\* client.chat.complete(...) answers: it raises, or the response has no tool
\* calls and its content is returned, or its tool calls are to be handled
Loop_complete(r, tool_calls) ==
    /\ variant = "loop"
    /\ loop.pc = "complete"
    /\ r \in {Ok(t) : t \in LLMTexts} \cup {Err(Error("ModelError"))}
    /\ tool_calls \in ToolCallLists
    /\ r.kind = "err" => tool_calls = <<>>
    /\ tool_calls # <<>> => r.v = <<"x">>
    /\ loop' = IF r.kind = "err" THEN [loop EXCEPT !.pc = "raised"]
               ELSE IF tool_calls = <<>>
               THEN [loop EXCEPT !.pc = "returned", !.content = r.v]
               ELSE [loop EXCEPT !.pc = "tools", !.tool_calls = tool_calls, !.i = 1,
                                 !.executed = <<>>, !.added = <<>>]
    /\ UNCHANGED pipeVars
    /\ UNCHANGED storeVars
    /\ UNCHANGED llmVars
    /\ UNCHANGED <<sqlRun, session_state, ui, litellm>>

\* one pass of `for tool_call in ...tool_calls`: the function is executed and
\* the two messages are added, or the function (or json.loads) raises
Loop_tool(ok) ==
    /\ variant = "loop"
    /\ loop.pc = "tools"
    /\ LET tool_call == loop.tool_calls[loop.i]
       IN  loop' = IF ~ok THEN [loop EXCEPT !.pc = "raised"]
                   ELSE [loop EXCEPT
                            !.executed = Append(@, tool_call),
                            !.added = @ \o Exchange(tool_call),
                            !.i = @ + 1,
                            !.pc = IF loop.i = Len(loop.tool_calls)
                                   THEN "complete" ELSE "tools"]
    /\ UNCHANGED pipeVars
    /\ UNCHANGED storeVars
    /\ UNCHANGED llmVars
    /\ UNCHANGED <<sqlRun, session_state, ui, litellm>>

----------------------------------------------------------------------------
(* Initial state *)

Init ==
    /\ variant \in Variants
    /\ docs_uploaded \in (IF variant \in {"async", "flow"} THEN BOOLEAN ELSE {FALSE})
    /\ docs_path \in (IF docs_uploaded THEN {"None", "upload"} ELSE {"None"})
    /\ doc \in (IF docs_path = "upload" THEN Docs ELSE {<<>>})
    /\ pc = (IF variant = "tools" THEN At("tools") ELSE At("init"))
    /\ status = [s \in Stages |-> "idle"]
    /\ fut = [s \in Stages |-> Pending]
    /\ val = [s \in Stages |-> <<>>]
    /\ prompts = [s \in Stages |-> <<>>]
    /\ flowResult = FlowResult
    /\ outcome = "running"
    /\ returned = NoResult
    /\ raised = NoError
    /\ queue = <<>>
    /\ log = <<>>
    /\ failure = NoFailure
    /\ closes = 0
    /\ svcExists \in {{}, {STREAMLIT_DOCS, ST_REF_DOCS}}
    /\ tblExists = svcExists
    /\ rows = [d \in DocumentType |-> IF d \in svcExists THEN <<TechRow>> ELSE <<>>]
    /\ svcIndex = rows
    /\ proc = ProcIdle
    /\ lastSearch = NoSearch
    /\ everIngested = svcExists
    /\ completions = [s \in Stages |-> 0]
    /\ toolRounds = [s \in Stages |-> 0]
    /\ sqlRun = SqlIdle
    /\ session_state = SessionDefaults
    /\ ui = UiIdle
    /\ litellm \in {ModuleLoaded(m) : m \in (IF variant = "llm" THEN Modules
                                               ELSE {"snowflake_mistral_agents"})}
    /\ loop = LoopStart

Next ==
    \/ init_snowflake_storage
    \/ process_document
    \/ StoreChunksTruncate
    \/ StoreChunksInsert
    \/ \E d \in DocumentType : RefreshIndex(d)
    \/ \E ok \in BOOLEAN : CortexSearchRequirementsTool_run(ok)
    \/ \E ts \in TechStackInputs, ok \in BOOLEAN : CortexSearchTechnicalTool_run(ts, ok)
    \/ \E d \in Docs : DirectIngest(d)
    \/ \E s \in Stages, t \in LLMTexts : StageReturns(s, t)
    \/ \E s \in Stages : StageRaises(s)
    \/ \E v \in {"async", "flow"} : ProcessDocuments(v)
    \/ \E v \in {"async", "flow"} : IngestDone(v)
    \/ \E s \in Stages : A_Kickoff(s)
    \/ \E s \in Stages : A_Await(s)
    \/ A_Gather
    \/ TaskStart
    \/ A_AwaitGather
    \/ \E s \in Stages : F_execute_task(s)
    \/ \E s \in Stages : F_method_done(s)
    \/ R_begin
    \/ \E s \in Stages : R_run(s)
    \/ \E s \in Stages : R_done(s)
    \/ M_begin
    \/ \E s \in Stages : M_call(s)
    \/ \E s \in Stages, r \in Completions(LLMTexts), tc \in BOOLEAN : M_complete(s, r, tc)
    \/ \E s \in Stages, found \in BOOLEAN : M_tool(s, found)
    \/ \E s \in Stages : M_done(s)
    \/ \E g \in BOOLEAN, h \in BOOLEAN : T_run(g, h)
    \/ \E r \in Completions(AnalysisTexts) : T_get_relevant_tables(r)
    \/ \E r \in Completions(LLMTexts) : T_generate_sql(r)
    \/ D_analyze_data
    \/ \E r \in Completions(AnalysisTexts) : D_get_relevant_tables(r)
    \/ \E r \in Completions(LLMTexts) : D_generate_sql(r)
    \/ \E s \in Stages : D_submit(s)
    \/ WorkerStart
    \/ \E s \in Stages, r \in Completions(LLMTexts) : D_tool_run(s, r)
    \/ \E s \in Stages : D_result(s)
    \/ D_generate_streamlit_code
    \/ \E r \in Completions(LLMTexts) : D_cortex_complete(r)
    \/ D_return
    \/ Home_generate
    \/ \E ok \in BOOLEAN : Home_kickoff(ok)
    \/ Home_store_code
    \/ Home_store_results
    \/ Home_reset
    \/ \E user \in Edits, submit \in BOOLEAN : Page_editor(user, submit)
    \/ \E result \in {"ran", "raised", "stopped", "empty"} : Page_exec(result)
    \/ \E i \in Instances, session \in Sessions, model_name \in ModelNames :
            Llm_init(i, session, model_name)
    \/ \E i \in Instances : Llm_call(i)
    \/ \E r \in Completions(LLMTexts), tool_calls \in ToolCallLists : Loop_complete(r, tool_calls)
    \/ \E ok \in BOOLEAN : Loop_tool(ok)

Spec == Init /\ [][Next]_vars

\* the function is entered
LoopInit == Init /\ variant = "loop"

LoopNext ==
    \/ \E r \in Completions(LLMTexts), tool_calls \in ToolCallLists : Loop_complete(r, tool_calls)
    \/ \E ok \in BOOLEAN : Loop_tool(ok)

\* one call of _process_mistral_interaction, whose thread keeps taking steps
LoopSpec == LoopInit /\ [][LoopNext]_vars /\ WF_vars(LoopNext)

----------------------------------------------------------------------------
(* Properties *)

\* the position of the first event <<kind, s>> in the log, 0 when there is none
Pos(kind, s) ==
    IF \E i \in DOMAIN log : log[i] = <<kind, s>>
    THEN CHOOSE i \in DOMAIN log :
            /\ log[i] = <<kind, s>>
            /\ \A j \in DOMAIN log : log[j] = <<kind, s>> => i <= j
    ELSE 0

\* the number of events <<kind, s>> in the log
Count(kind, s) == Cardinality({i \in DOMAIN log : log[i] = <<kind, s>>})

\* a value that is the text a stage produced: not the empty default, not
\* None, not the text a tool returns in place of an exception
IsStageOutput(v) ==
    /\ v # <<>>
    /\ v # NoneVal
    /\ \A s \in ParallelStages("ds") : v # FailedText(s)

\* C1: a pipeline call that returns hands back a result in which the field of
\* every stage holds the output of that stage; otherwise it raises.
C1_CompleteResultOrRaise ==
    outcome = "returned" =>
        \A s \in StagesOf(variant) : IsStageOutput(returned[FieldOf(variant, s)])

\* the stages that are to be complete before s starts
Predecessors(v, s) ==
    Deps(v, s) \cup (IF v \in {"async", "flow"} /\ s = "code"
                     THEN {"data_analysis", "patterns"} ELSE {})

\* C2: a stage starts only after every stage it depends on has completed and
\* produced its result: data mapping and pattern research after requirements,
\* code generation after both.
C2_DependencyOrder ==
    \A s \in StagesOf(variant) :
        Pos("start", s) > 0 =>
            \A d \in Predecessors(variant, s) :
                /\ Pos("done", d) > 0
                /\ Pos("done", d) < Pos("start", s)
                /\ fut[d].kind = "ok"

C2_Witness ==
    /\ variant = "async"
    /\ status["code"] = "running"
    /\ status["data_analysis"] = "done"
    /\ status["patterns"] = "done"

\* C3: in the diamond pipelines both parallel stages are started before code
\* generation is started, and while one parallel stage is still running the
\* other one, not yet started, can be started without waiting for it.
C3_ParallelStart ==
    /\ \A s \in ParallelStages(variant) :
            Pos("start", "code") > 0 =>
                /\ Pos("start", s) > 0
                /\ Pos("start", s) < Pos("start", "code")
    /\ \A a \in ParallelStages(variant), b \in ParallelStages(variant) :
            (a # b /\ status[a] = "running" /\ status[b] = "idle") =>
                IF queue # <<>> /\ Head(queue) = b
                THEN ENABLED (TaskStart \/ WorkerStart)
                ELSE ENABLED D_submit(b)

C3_Witness ==
    /\ variant = "ds"
    /\ status["ml"] = "running"
    /\ status["viz"] = "idle"
    /\ queue = <<"viz">>

\* C4: once a stage has failed, no stage is started any more in that run.
C4_NoStartAfterFailure ==
    \A i \in DOMAIN log, j \in DOMAIN log :
        (i < j /\ log[i][1] = "fail") => log[j][1] # "start"

\* C5: within one run every stage is started at most once and its result is
\* written at most once.
C5_AtMostOnce ==
    \A s \in Stages : Count("start", s) <= 1 /\ Count("write", s) <= 1

C5_Witness ==
    /\ variant = "flow"
    /\ outcome = "returned"
    /\ \A s \in StagesOf("flow") : Count("start", s) = 1 /\ Count("write", s) = 1

C8_EmptyTagSearch ==
    (lastSearch.tool # "none" /\ lastSearch.fresh) =>
        (lastSearch.outcome = "ok" /\ lastSearch.results = <<>>)

\* C9: a run in which a stage had a failure does not return a result.
C9_FailureAborts ==
    outcome = "returned" => failure.stage = "none"

C11_FirstFailureRaised ==
    (pc = At("end") /\ \E s \in ParallelStages(variant) : Pos("fail", s) > 0) =>
        /\ outcome = "raised"
        /\ raised = fut[FirstFailed(log, ParallelStages(variant))].err

\* C13: an ingestion of a document that yields no chunk ends with an error,
\* is never completed, and the pipeline that started it does not go on.
C13_EmptyIngestFails ==
    (proc.pc \in {"stored", "failed"} /\ _split_into_chunks(doc) = <<>>) =>
        /\ proc.pc = "failed"
        /\ proc.err # NoError
        /\ variant \in {"async", "flow"} =>
                /\ fut["requirements"] = Pending
                /\ outcome # "returned"
                /\ pc = At("end") => (outcome = "raised" /\ raised = proc.err)

C13_Witness ==
    /\ variant = "async"
    /\ doc = <<>>
    /\ proc.pc = "failed"
    /\ outcome = "raised"

\* C14: the prompt of the code-generation stage contains the output of every
\* other stage of the run.
C14_CodePromptHasAllPrior ==
    Pos("start", "code") > 0 =>
        \A d \in StagesOf(variant) \ {"code"} : Contains(prompts["code"], fut[d].v)

\* C16: a step in which a search tool runs leaves the stored chunks, the
\* tables, the search services and their indexes as they were.
C16_SearchIsRead ==
    [][lastSearch' # lastSearch =>
            /\ rows' = rows
            /\ svcIndex' = svcIndex
            /\ tblExists' = tblExists
            /\ svcExists' = svcExists]_vars

C16_Witness ==
    /\ lastSearch.outcome = "ok"
    /\ lastSearch.results # <<>>
    /\ rows[lastSearch.tag] # <<>>
    /\ proc.pc = "truncated"

\* C17: a result object the caller can reach exists only once the run has
\* returned, and then it is the complete result that was returned.
C17_ResultCreatedAtEnd ==
    flowResult # FlowResult => (outcome = "returned" /\ flowResult = returned)

C19_OrderIndependent ==
    /\ (variant = "async" /\ Pos("start", "code") > 0) =>
            prompts["code"] = AsyncCodePrompt(fut["requirements"].v,
                                              fut["data_analysis"].v, fut["patterns"].v)
    /\ (variant = "async" /\ outcome = "returned") =>
            /\ returned.requirements = fut["requirements"].v
            /\ returned.data_analysis = fut["data_analysis"].v
            /\ returned.reference_patterns = fut["patterns"].v
            /\ returned.final_code = fut["code"].v
    /\ (variant = "ds" /\ Pos("start", "code") > 0) =>
            prompts["code"] = StreamlitPrompt(fut["data_analysis"].v, fut["viz"].v)
    /\ (variant = "ds" /\ outcome = "returned") =>
            /\ returned.data_analysis = fut["data_analysis"].v
            /\ returned.sklearn_code = fut["ml"].v
            /\ returned.visualization_code = fut["viz"].v

C19_Witness ==
    /\ variant = "async"
    /\ outcome = "returned"
    /\ Pos("done", "patterns") < Pos("done", "data_analysis")
    /\ fut["patterns"].v # fut["data_analysis"].v

\* C20: the step in which a parallel stage finishes writes the future of that
\* stage only: it changes no other stage's future or status, no stored result
\* and no prompt; and a parallel stage runs only on completed upstream results.
C20_OwnSlotOnly ==
    [][\A s \in ParallelStages(variant) :
            (status[s] = "running" /\ status'[s] # "running") =>
                /\ \A b \in Stages \ {s} : fut'[b] = fut[b] /\ status'[b] = status[b]
                /\ val' = val
                /\ prompts' = prompts
                /\ flowResult' = flowResult
                /\ \A d \in Deps(variant, s) : fut[d].kind = "ok"]_vars

C20_Witness ==
    /\ variant = "async"
    /\ status["data_analysis"] = "done"
    /\ status["patterns"] = "running"
    /\ fut["patterns"] = Pending
    /\ fut["data_analysis"].kind = "ok"

\* C15, as claimed: every stage execution that has ended has issued exactly
\* one model completion (in the pipelines whose model calls are made by the
\* repository's own code).
C15_OneCompletionPerStage ==
    variant \in {"ds", "mistral"} =>
        \A s \in StagesOf(variant) :
            status[s] \in {"done", "failed"} => completions[s] = 1

\* C15, amended: a stage execution issues one completion per turn of its
\* interaction: a stage of the function-calling processor that returned has
\* issued one completion more than it had rounds of tool calls, exactly one
\* when it has no tools; the table-analysis stage of DataScienceFlow issues a
\* second completion when it goes on to generate SQL; the other stages of
\* DataScienceFlow that produced their output issued one.
C15_CompletionPerTurn ==
    /\ variant = "mistral" =>
            \A s \in StagesOf(variant) :
                status[s] = "done" =>
                    /\ completions[s] = toolRounds[s] + 1
                    /\ s \notin MistralToolStages => completions[s] = 1
    /\ variant = "ds" =>
            \A s \in StagesOf(variant) :
                (status[s] = "done" /\ Pos("fail", s) = 0) =>
                    completions[s] =
                        IF s = "data_analysis" /\ ~Contains(fut[s].v, <<NoDataPhrase>>)
                        THEN 2 ELSE 1

C15_Witness ==
    /\ variant = "mistral"
    /\ outcome = "returned"
    /\ toolRounds["requirements"] = 0
    /\ toolRounds["sklearn_specs"] = 1
    /\ toolRounds["streamlit_specs"] > 1
    /\ completions["streamlit_specs"] > 2

C22_SqlOnlyWhenNeeded ==
    /\ (sqlRun.pc = "sql" \/ sqlRun.sql_calls > 0) =>
            /\ ~Contains(sqlRun.analysis, <<NoDataPhrase>>)
            /\ sqlRun.generate_sql
            /\ sqlRun.rag_generator
    /\ (sqlRun.pc = "returned" /\ Contains(sqlRun.analysis, <<NoDataPhrase>>)) =>
            /\ sqlRun.answer = sqlRun.analysis
            /\ sqlRun.sql_calls = 0

C22_Witness ==
    /\ sqlRun.pc = "returned"
    /\ Contains(sqlRun.analysis, <<NoDataPhrase>>)
    /\ sqlRun.generate_sql
    /\ sqlRun.rag_generator
    /\ sqlRun.answer = sqlRun.analysis

\* C23: execute_flow closes the session exactly once per call, whether it
\* returns or raises, not before the call ends, and never while the ML or the
\* visualisation stage is still running or waiting for a pool thread.
C23_SessionClosedOnce ==
    variant = "ds" =>
        /\ outcome = "running" => closes = 0
        /\ outcome # "running" => closes = 1
        /\ closes > 0 =>
                /\ queue = <<>>
                /\ \A s \in ParallelStages("ds") : status[s] # "running"

C23_Witness ==
    /\ variant = "ds"
    /\ outcome = "raised"
    /\ closes = 1
    /\ status["ml"] = "done"
    /\ status["viz"] = "done"
    /\ Count("fail", "viz") > 0

C25_CodeAndResultsSameRun ==
    ui.pc = "idle" =>
        /\ session_state.generated_code = ui.lastSuccess
        /\ session_state.app_results = ui.lastSuccess

C25_Witness ==
    /\ ui.pc = "idle"
    /\ ui.last = "failed"
    /\ ui.lastSuccess # NoCode
    /\ ui.attempt > ui.lastSuccess
    /\ session_state.app_results = ui.lastSuccess

\* C26: the try block of execute_generated_code is entered only with
\* execution_requested true, a non-empty edited_code and is_executing false,
\* and when it is left, is_executing and execution_requested are both false.
C26_ExecuteOnlyOnRequest ==
    [][/\ (ui.pc # "executing" /\ ui'.pc = "executing") =>
                /\ session_state'.execution_requested
                /\ Truthy(session_state'.edited_code)
                /\ ~session_state.is_executing
       /\ (ui.pc = "executing" /\ ui'.pc # "executing") =>
                /\ ~session_state'.is_executing
                /\ ~session_state'.execution_requested]_vars

C26_Witness ==
    /\ ui.exec.outcome = "raised"
    /\ ui.pc = "idle"
    /\ ~session_state.is_executing
    /\ ~session_state.execution_requested

\* C27: the code the editor of the Generated App page shows, and the code the
\* page executes, come from the newest generated_code.
C27_EditorShowsNewest ==
    /\ ui.shown.code = ui.shown.newest
    /\ ui.exec.code = ui.exec.newest

C29_OwnSession ==
    litellm.last.instance # 0 =>
        /\ litellm.last.session = litellm.cortex_llm[litellm.last.instance].session
        /\ litellm.last.model_name = litellm.cortex_llm[litellm.last.instance].model_name

\* the messages added for the tool calls of a response, in their order
RECURSIVE Exchanges(_)
Exchanges(calls) ==
    IF calls = <<>> THEN <<>> ELSE Exchange(Head(calls)) \o Exchanges(Tail(calls))

\* C30: _process_mistral_interaction ends (it returns the content of a
\* response without tool calls, or an exception leaves it), and whenever the
\* model is called again, every tool call of the previous response has been
\* executed once, in order, and answered by a tool message with its id.
C30_TerminatesInOrder ==
    /\ <>(loop.pc \in {"returned", "raised"})
    /\ [](loop.pc = "complete" =>
            /\ loop.executed = loop.tool_calls
            /\ loop.added = Exchanges(loop.tool_calls))

====
